---- MODULE Spec2Model ----
(***************************************************************************)
(* Model of the dns-server repository: the DNS wire codec of src/lib.rs    *)
(* (DnsQuery, DnsHeader, Flags, Question, Answer, DnsRecord) and the       *)
(* service loop of src/main.rs (main, handle).                             *)
(*                                                                         *)
(* Bytes are naturals 0..255.  A Rust String is the sequence of its        *)
(* Unicode code points; its len() is the length of its UTF-8 encoding.     *)
(***************************************************************************)
EXTENDS Integers, Sequences, FiniteSets, TLC

VARIABLES
    records,   \* the zone records parse_file loaded, read-only afterwards
    running,   \* the process is alive (main has not panicked)
    request,   \* the latest datagram and its sender
    outcome,   \* how the latest call of handle ended
    query,     \* the DnsQuery decoded from the latest datagram
    consumed,  \* the bytes of buf the decoder consumed for it
    response,  \* the DnsQuery handle built for it
    picked,    \* per question, the index of the record selected, 0 for none
    wire       \* the datagram the latest call of handle sent, if any

vars == <<records, running, request, outcome,
          query, consumed, response, picked, wire>>

----------------------------------------------------------------------------
(* Program constants *)

\* let mut buf = [0u8; 512]
BufSize == 512
\* ttl: 60
Ttl == 60
\* the separator of split('.') and join(".")
Dot == 46

----------------------------------------------------------------------------
(* Bounds of the model *)

\* questions per enumerated request
MaxQuestions == 2
\* the values drawn for rng.next_u32() are 0..MaxRnd
MaxRnd == 1

----------------------------------------------------------------------------
(* Integer and sequence helpers *)

Min(a, b) == IF a < b THEN a ELSE b

\* `x as u8`
AsU8(x) == x % 256

\* `x as u16`
AsU16(x) == x % 65536

\* ByteBuffer::write_u16: big-endian
write_u16(v) == << (v \div 256) % 256, v % 256 >>

\* ByteBuffer::write_u32: big-endian
write_u32(v) == << (v \div 16777216) % 256, (v \div 65536) % 256,
                   (v \div 256) % 256, v % 256 >>

RECURSIVE Flatten(_)
Flatten(ss) == IF ss = << >> THEN << >> ELSE Head(ss) \o Flatten(Tail(ss))

----------------------------------------------------------------------------
(* Rust strings *)

\* char::len_utf8
Utf8Len(c) == IF c < 128 THEN 1 ELSE IF c < 2048 THEN 2 ELSE IF c < 65536 THEN 3 ELSE 4

\* str::len(): the number of bytes of the UTF-8 encoding
RECURSIVE StrLen(_)
StrLen(s) == IF s = << >> THEN 0 ELSE Utf8Len(Head(s)) + StrLen(Tail(s))

IsCont(b) == b >= 128 /\ b <= 191

\* std::str::from_utf8: the code points of raw, or a failure; ASCII bytes
\* are their own code points
RECURSIVE from_utf8(_)
from_utf8(raw) ==
    IF \A i \in 1..Len(raw) : raw[i] < 128 THEN [ok |-> TRUE, val |-> raw]
    ELSE
      LET b0 == raw[1]
          n  == Len(raw)
          width == IF b0 < 128 THEN 1
                   ELSE IF b0 >= 194 /\ b0 <= 223 THEN 2
                   ELSE IF b0 >= 224 /\ b0 <= 239 THEN 3
                   ELSE IF b0 >= 240 /\ b0 <= 244 THEN 4
                   ELSE 0
          good ==
              /\ width > 0
              /\ n >= width
              /\ \A i \in 2..width : IsCont(raw[i])
              /\ (b0 = 224 => raw[2] >= 160)
              /\ (b0 = 237 => raw[2] <= 159)
              /\ (b0 = 240 => raw[2] >= 144)
              /\ (b0 = 244 => raw[2] <= 143)
          cp == IF width = 1 THEN b0
                ELSE IF width = 2 THEN (b0 % 32) * 64 + (raw[2] % 64)
                ELSE IF width = 3
                     THEN (b0 % 16) * 4096 + (raw[2] % 64) * 64 + (raw[3] % 64)
                ELSE (b0 % 8) * 262144 + (raw[2] % 64) * 4096
                        + (raw[3] % 64) * 64 + (raw[4] % 64)
      IN  IF ~good THEN [ok |-> FALSE, val |-> << >>]
          ELSE LET rest == from_utf8(SubSeq(raw, width + 1, n))
               IN  IF rest.ok THEN [ok |-> TRUE, val |-> <<cp>> \o rest.val]
                   ELSE rest

\* str::split('.'): the tokens between dots; the empty string gives one
\* empty token
RECURSIVE SplitAcc(_, _, _)
SplitAcc(s, cur, acc) ==
    IF s = << >> THEN Append(acc, cur)
    ELSE IF Head(s) = Dot THEN SplitAcc(Tail(s), << >>, Append(acc, cur))
    ELSE SplitAcc(Tail(s), Append(cur, Head(s)), acc)

Split(s) == SplitAcc(s, << >>, << >>)

\* [String]::join("."): no tokens give the empty string
RECURSIVE Join(_)
Join(tokens) ==
    IF tokens = << >> THEN << >>
    ELSE IF Len(tokens) = 1 THEN tokens[1]
    ELSE tokens[1] \o <<Dot>> \o Join(Tail(tokens))

\* str::parse::<u8>(): an optional '+', then decimal digits, at most 255
RECURSIVE DigitsValue(_, _)
DigitsValue(ds, acc) ==
    IF ds = << >> THEN acc
    ELSE IF Head(ds) < 48 \/ Head(ds) > 57 THEN -1
    ELSE IF acc * 10 + (Head(ds) - 48) > 255 THEN -1
    ELSE DigitsValue(Tail(ds), acc * 10 + (Head(ds) - 48))

parse_u8(tok) ==
    LET digits == IF tok # << >> /\ tok[1] = 43 THEN Tail(tok) ELSE tok
        v == IF digits = << >> THEN -1 ELSE DigitsValue(digits, 0)
    IN  [ok |-> v >= 0, val |-> v]

----------------------------------------------------------------------------
(* QType and QClass *)

\* QType::from_u16: only 1 and 5 decode
QType_from_u16(v) ==
    IF v = 1 THEN [ok |-> TRUE, val |-> "A"]
    ELSE IF v = 5 THEN [ok |-> TRUE, val |-> "CNAME"]
    ELSE [ok |-> FALSE, val |-> "Unknown qtype"]

\* QType::to_u16
QType_to_u16(t) == IF t = "A" THEN 1 ELSE IF t = "CNAME" THEN 5 ELSE t.Unknown

\* QClass::from_u16: only 1 decodes
QClass_from_u16(v) ==
    IF v = 1 THEN [ok |-> TRUE, val |-> "IN"]
    ELSE [ok |-> FALSE, val |-> "Unknown qclass"]

\* QClass::to_u16
QClass_to_u16(c) == IF c = "IN" THEN 1 ELSE c.Unknown

----------------------------------------------------------------------------
(* ByteReader over a buffer; pos is the number of bytes consumed *)

EndOfBuffer == "UnexpectedEndOfBuffer"

\* ByteReader::read_u16
read_u16(buf, pos) ==
    IF pos + 2 > Len(buf) THEN [ok |-> FALSE, val |-> 0, pos |-> pos]
    ELSE [ok |-> TRUE, val |-> buf[pos + 1] * 256 + buf[pos + 2], pos |-> pos + 2]

----------------------------------------------------------------------------
(* Flags and DnsHeader *)

\* Flags::read_buf: 16 bits, most significant first, from two bytes
Flags_read_buf(b1, b2) ==
    [ qr                  |-> (b1 \div 128) % 2 = 1,
      opcode              |-> (b1 \div 8) % 16,
      authorihative_answer |-> (b1 \div 4) % 2 = 1,
      truncate            |-> (b1 \div 2) % 2 = 1,
      recursion_desired   |-> b1 % 2 = 1,
      recursion_available |-> (b2 \div 128) % 2 = 1,
      response_code       |-> b2 % 16 ]

Bit(b) == IF b THEN 1 ELSE 0

\* Flags::write_buf: the three reserved bits are written as 0
Flags_write_buf(f) ==
    << Bit(f.qr) * 128 + (f.opcode % 16) * 8 + Bit(f.authorihative_answer) * 4
         + Bit(f.truncate) * 2 + Bit(f.recursion_desired),
       Bit(f.recursion_available) * 128 + (f.response_code % 16) >>

\* DnsHeader::read_buf: id, flags and four counts, 12 bytes
DnsHeader_read_buf(buf, pos) ==
    IF pos + 12 > Len(buf) THEN [ok |-> FALSE, err |-> EndOfBuffer, pos |-> pos]
    ELSE [ ok  |-> TRUE,
           val |-> [ id          |-> read_u16(buf, pos).val,
                     flags       |-> Flags_read_buf(buf[pos + 3], buf[pos + 4]),
                     questions   |-> read_u16(buf, pos + 4).val,
                     answers     |-> read_u16(buf, pos + 6).val,
                     authorities |-> read_u16(buf, pos + 8).val,
                     additional  |-> read_u16(buf, pos + 10).val ],
           pos |-> pos + 12 ]

\* DnsHeader::write_buf
DnsHeader_write_buf(h) ==
    write_u16(h.id) \o Flags_write_buf(h.flags) \o write_u16(h.questions)
      \o write_u16(h.answers) \o write_u16(h.authorities) \o write_u16(h.additional)

----------------------------------------------------------------------------
(* Question *)

\* the `while let` loop of Question::read_buf: length-prefixed labels up to
\* a zero length byte; st is "ok", "eof" (a read past the buffer end) or
\* "panic" (label bytes that are not UTF-8)
RECURSIVE ReadTokens(_, _, _)
ReadTokens(buf, pos, tokens) ==
    IF pos + 1 > Len(buf) THEN [st |-> "eof", tokens |-> tokens, pos |-> pos]
    ELSE
      LET token_size == buf[pos + 1]
      IN  IF token_size = 0 THEN [st |-> "ok", tokens |-> tokens, pos |-> pos + 1]
          ELSE IF pos + 1 + token_size > Len(buf)
               THEN [st |-> "eof", tokens |-> tokens, pos |-> pos + 1]
          ELSE LET s == from_utf8(SubSeq(buf, pos + 2, pos + 1 + token_size))
               IN  IF ~s.ok THEN [st |-> "panic", tokens |-> tokens, pos |-> pos + 1]
                   ELSE ReadTokens(buf, pos + 1 + token_size, Append(tokens, s.val))

NoQuestion == [qname |-> << >>, qtype |-> "A", qclass |-> "IN", tokens |-> << >>]

\* Question::read_buf; the field tokens keeps the labels as read (the local
\* `tokens`), which the program drops after joining them
Question_read_buf(buf, pos) ==
    LET t == ReadTokens(buf, pos, << >>)
        ty == read_u16(buf, t.pos)
        qt == QType_from_u16(ty.val)
        cl == read_u16(buf, ty.pos)
        qc == QClass_from_u16(cl.val)
        bad(st, err, at) == [st |-> st, err |-> err, val |-> NoQuestion, pos |-> at]
    IN  IF t.st = "panic" THEN bad("panic", "Invalid UTF-8 sequence", t.pos)
        ELSE IF t.st = "eof" THEN bad("err", EndOfBuffer, t.pos)
        ELSE IF ~ty.ok THEN bad("err", EndOfBuffer, ty.pos)
        ELSE IF ~qt.ok THEN bad("err", qt.val, ty.pos)
        ELSE IF ~cl.ok THEN bad("err", EndOfBuffer, cl.pos)
        ELSE IF ~qc.ok THEN bad("err", qc.val, cl.pos)
        ELSE [ st  |-> "ok", err |-> "",
               val |-> [qname |-> Join(t.tokens), qtype |-> qt.val,
                        qclass |-> qc.val, tokens |-> t.tokens],
               pos |-> cl.pos ]

\* the label loop shared by Question::write_buf, Answer::write_buf and
\* DnsRecord::data: per token its len() as u8, then each char as u8
RECURSIVE WriteChars(_)
WriteChars(s) == IF s = << >> THEN << >> ELSE <<AsU8(Head(s))>> \o WriteChars(Tail(s))

RECURSIVE WriteTokens(_)
WriteTokens(tokens) ==
    IF tokens = << >> THEN << >>
    ELSE <<AsU8(StrLen(Head(tokens)))>> \o WriteChars(Head(tokens))
           \o WriteTokens(Tail(tokens))

\* the class written before the type
Question_write_buf_Swapped(q) ==
    WriteTokens(Split(q.qname)) \o <<0>> \o write_u16(QClass_to_u16(q.qclass))
      \o write_u16(QType_to_u16(q.qtype))

\* Question::write_buf
Question_write_buf(q) ==
    WriteTokens(Split(q.qname)) \o <<0>> \o write_u16(QType_to_u16(q.qtype))
      \o write_u16(QClass_to_u16(q.qclass))

----------------------------------------------------------------------------
(* Answer and DnsRecord *)

\* Answer::write_buf
Answer_write_buf(a) ==
    WriteTokens(Split(a.name)) \o <<0>> \o write_u16(QType_to_u16(a.qtype))
      \o write_u16(QClass_to_u16(a.qclass)) \o write_u32(a.ttl)
      \o write_u16(a.length) \o a.data

\* DnsRecord::length
DnsRecord_length(r) == IF r.qtype = "A" THEN 4 ELSE StrLen(r.entry) + 1

\* the A branch of DnsRecord::data: every token parsed as u8, the first
\* failure returned
RECURSIVE ParseOctets(_)
ParseOctets(tokens) ==
    IF tokens = << >> THEN [ok |-> TRUE, val |-> << >>]
    ELSE LET b == parse_u8(Head(tokens))
             rest == ParseOctets(Tail(tokens))
         IN  IF ~b.ok THEN [ok |-> FALSE, val |-> << >>]
             ELSE IF ~rest.ok THEN rest
             ELSE [ok |-> TRUE, val |-> <<b.val>> \o rest.val]

\* DnsRecord::data
DnsRecord_data(r) ==
    IF r.qtype = "A" THEN ParseOctets(Split(r.entry))
    ELSE [ok |-> TRUE, val |-> WriteTokens(Split(r.entry)) \o <<0>>]

----------------------------------------------------------------------------
(* DnsQuery *)

\* the `for _ in 0..header.questions` loop of DnsQuery::from_buffer
RECURSIVE ReadQuestions(_, _, _, _)
ReadQuestions(buf, pos, n, acc) ==
    IF n = 0 THEN [st |-> "ok", err |-> "", val |-> acc, pos |-> pos]
    ELSE LET q == Question_read_buf(buf, pos)
         IN  IF q.st # "ok" THEN [st |-> q.st, err |-> q.err, val |-> acc, pos |-> q.pos]
             ELSE ReadQuestions(buf, q.pos, n - 1, Append(acc, q.val))

NoHeader == [ id |-> 0,
              flags |-> Flags_read_buf(0, 0),
              questions |-> 0, answers |-> 0, authorities |-> 0, additional |-> 0 ]

\* DnsQuery::new
DnsQuery_new == [header |-> NoHeader, questions |-> << >>, answers |-> << >>]

\* DnsQuery::from_buffer: the header, then header.questions questions;
\* pos is the number of bytes of buf consumed
DnsQuery_from_buffer(buf) ==
    LET h == DnsHeader_read_buf(buf, 0)
        qs == ReadQuestions(buf, h.pos, h.val.questions, << >>)
    IN  IF ~h.ok THEN [st |-> "err", err |-> h.err, val |-> DnsQuery_new, pos |-> 0]
        ELSE [ st  |-> qs.st, err |-> qs.err,
               val |-> [header |-> h.val, questions |-> qs.val, answers |-> << >>],
               pos |-> qs.pos ]

\* DnsQuery::write_buf: the header, every question, every answer
DnsQuery_write_buf(m) ==
    DnsHeader_write_buf(m.header)
      \o Flatten([i \in 1..Len(m.questions) |-> Question_write_buf(m.questions[i])])
      \o Flatten([i \in 1..Len(m.answers) |-> Answer_write_buf(m.answers[i])])

----------------------------------------------------------------------------
(* handle *)

\* socket.recv_from(&mut buf) into a fresh zeroed buf: the first BufSize
\* bytes of the datagram, the rest of buf left 0.  A datagram is its
\* leading bytes head followed by fillLen (at most BufSize) bytes fill.
DatagramLen(d) == Len(d.head) + d.fillLen

\* BufSize bytes f, for the filler bytes f of the datagrams explored;
\* Filler[0] is buf as `[0u8; 512]` leaves it
Filler == [f \in {0, 127} |-> [i \in 1..BufSize |-> f]]

recv_from(d) ==
    LET datagram == d.head \o SubSeq(Filler[d.fill], 1, d.fillLen)
    IN  [ buf |-> SubSeq(datagram \o Filler[0], 1, BufSize),
          n   |-> Min(Len(datagram), BufSize) ]

\* the filters with the type filter left out
MatchedRecords_NoTypeFilter(recs, question) ==
    SelectSeq([i \in 1..Len(recs) |-> i],
              LAMBDA i : /\ recs[i].qclass = question.qclass
                         /\ recs[i].qname = question.qname)

\* the three filters of handle: the indices of the records with the type,
\* class and name of the question, in record order
MatchedRecords(recs, question) ==
    SelectSeq([i \in 1..Len(recs) |-> i],
              LAMBDA i : /\ recs[i].qtype = question.qtype
                         /\ recs[i].qclass = question.qclass
                         /\ recs[i].qname = question.qname)

\* rng.next_u32() % matched_records.len()
PickIndex(rnd, n) == rnd % n

\* the Answer handle pushes for the selected record
MakeAnswer(record, data) ==
    [ name |-> record.qname, qclass |-> record.qclass, qtype |-> record.qtype,
      ttl |-> Ttl, length |-> AsU16(DnsRecord_length(record)), data |-> data ]

\* the indices rng.next_u32() % n can give for the values 0..MaxRnd of
\* next_u32
PickedIndices(n) == { PickIndex(rnd, n) : rnd \in 0..MaxRnd }

\* the `for question in &query.questions` loop of handle from question i
\* on: the set of its possible results, one per choice of the random
\* indices; a failing data() ends the loop with ok FALSE
RECURSIVE Resolve(_, _, _, _, _)
Resolve(recs, questions, i, answers, picks) ==
    IF i > Len(questions) THEN {[ok |-> TRUE, answers |-> answers, picks |-> picks]}
    ELSE
      LET matched == MatchedRecords(recs, questions[i])
          pick(index) ==
              LET r == matched[index + 1]
                  data == DnsRecord_data(recs[r])
              IN  IF ~data.ok
                  THEN {[ok |-> FALSE, answers |-> answers, picks |-> Append(picks, r)]}
                  ELSE Resolve(recs, questions, i + 1,
                               Append(answers, MakeAnswer(recs[r], data.val)),
                               Append(picks, r))
      IN  IF matched = << >>
          THEN Resolve(recs, questions, i + 1, answers, Append(picks, 0))
          ELSE UNION { pick(index) : index \in PickedIndices(Len(matched)) }

\* NameError only when nothing at all was answered
ResponseCode_NoAnswers(answers, questions) == IF answers = 0 THEN 3 ELSE 0

\* response.header.flags.response_code
ResponseCode(answers, questions) == IF answers # questions THEN 3 ELSE 0

\* the request's counts of authority and additional entries kept
ResponseHeader_KeepCounts(h, nanswers) ==
    [ h EXCEPT !.answers = AsU16(nanswers),
               !.flags = [ h.flags EXCEPT
                             !.qr = TRUE,
                             !.authorihative_answer = FALSE,
                             !.truncate = FALSE,
                             !.recursion_available = FALSE,
                             !.response_code =
                                 IF AsU16(nanswers) # h.questions THEN 3 ELSE 0 ] ]

\* response.header: the request's header with the answer count, the zeroed
\* counts and the response flags
ResponseHeader(h, nanswers) ==
    [ h EXCEPT !.answers = AsU16(nanswers),
               !.additional = 0,
               !.authorities = 0,
               !.flags = [ h.flags EXCEPT
                             !.qr = TRUE,
                             !.authorihative_answer = FALSE,
                             !.truncate = FALSE,
                             !.recursion_available = FALSE,
                             !.response_code =
                                 ResponseCode(AsU16(nanswers), h.questions) ] ]

NoWire == [to |-> "", bytes |-> << >>]

\* handle once recv_from returned: decode, resolve, encode, send
HandleReceived(d, from) ==
    \E rx \in {recv_from(d)} : \E q \in {DnsQuery_from_buffer(rx.buf)} :
        /\ request' = [d |-> d, from |-> from, n |-> rx.n]
        /\ query' = q.val
        /\ consumed' = q.pos
        /\ UNCHANGED records
        /\ IF q.st # "ok"
           THEN /\ outcome' = IF q.st = "panic" THEN "panic" ELSE "decode_err"
                /\ running' = FALSE
                /\ response' = DnsQuery_new
                /\ picked' = << >>
                /\ wire' = NoWire
           ELSE \E res \in Resolve(records, q.val.questions, 1, << >>, << >>) :
                  /\ picked' = res.picks
                  /\ IF ~res.ok
                     THEN /\ outcome' = "resolve_err"
                          /\ running' = FALSE
                          /\ response' = [DnsQuery_new EXCEPT !.answers = res.answers]
                          /\ wire' = NoWire
                     ELSE \E resp \in {[ header |-> ResponseHeader(q.val.header,
                                                                  Len(res.answers)),
                                         questions |-> q.val.questions,
                                         answers |-> res.answers ]} :
                          /\ outcome' = "sent"
                          /\ running' = TRUE
                          /\ response' = resp
                          /\ wire' = [to |-> from, bytes |-> DnsQuery_write_buf(resp)]

\* one iteration of the loop of main: handle(&socket, &records), and the
\* panic of expect("fail to handle") when it returns an error.  d is the
\* datagram the socket delivers and from its sender.  A datagram longer
\* than buf is cut to BufSize bytes or, where the platform reports it
\* instead, fails recv_from.  send_to is taken to succeed.
Handle(d, from) ==
    /\ running
    /\ \/ /\ DatagramLen(d) > BufSize
          /\ request' = [d |-> d, from |-> from, n |-> 0]
          /\ outcome' = "recv_err"
          /\ running' = FALSE
          /\ query' = DnsQuery_new
          /\ consumed' = 0
          /\ response' = DnsQuery_new
          /\ picked' = << >>
          /\ wire' = NoWire
          /\ UNCHANGED records
       \/ HandleReceived(d, from)

----------------------------------------------------------------------------
(* The zone files and datagrams explored *)

\* DnsRecord::new, for a line of four whitespace-separated tokens
DnsRecord_new(qname, qclass, qtype, entry) ==
    [qname |-> qname, qclass |-> qclass, qtype |-> qtype, entry |-> entry]

\* "x", "a.b" and the one-character name U+00E9
NameX == <<120>>
NameAB == <<97, 46, 98>>
NameE9 == <<233>>

\* the record sets parse_file can return that are explored
Zones ==
    { << >>,
      \* x IN A 1.2.3.4 / x IN A 5.6.7.8 / x IN CNAME a.b / a.b IN CNAME c
      << DnsRecord_new(NameX, "IN", "A", <<49, 46, 50, 46, 51, 46, 52>>),
         DnsRecord_new(NameX, "IN", "A", <<53, 46, 54, 46, 55, 46, 56>>),
         DnsRecord_new(NameX, "IN", "CNAME", NameAB),
         DnsRecord_new(NameAB, "IN", "CNAME", <<99>>) >>,
      \* x IN A 1.2.3 / x IN CNAME a / U+00E9 IN A 255.0.0.1
      << DnsRecord_new(NameX, "IN", "A", <<49, 46, 50, 46, 51>>),
         DnsRecord_new(NameX, "IN", "CNAME", <<97>>),
         DnsRecord_new(NameE9, "IN", "A", <<50, 53, 53, 46, 48, 46, 48, 46, 49>>) >>,
      \* x IN A 1.2.3.z / x IN A 1.2.3.4 / x IN CNAME U+00E9
      << DnsRecord_new(NameX, "IN", "A", <<49, 46, 50, 46, 51, 46, 122>>),
         DnsRecord_new(NameX, "IN", "A", <<49, 46, 50, 46, 51, 46, 52>>),
         DnsRecord_new(NameX, "IN", "CNAME", NameE9) >>,
      \* x IN A 1.2.3.256 / a.b IN CNAME x.
      << DnsRecord_new(NameX, "IN", "A", <<49, 46, 50, 46, 51, 46, 50, 53, 54>>),
         DnsRecord_new(NameAB, "IN", "CNAME", <<120, 46>>) >>,
      \* x IN A +1.2.3.4 / x IN CNAME x
      << DnsRecord_new(NameX, "IN", "A", <<43, 49, 46, 50, 46, 51, 46, 52>>),
         DnsRecord_new(NameX, "IN", "CNAME", NameX) >> }

Senders == {"c1", "c2"}

\* a question entry on the wire
WireQuestion(name, qtype, qclass) == name \o write_u16(qtype) \o write_u16(qclass)

\* names on the wire: x, X, the root, a.b as two labels, a.b as one label,
\* the two-byte UTF-8 label U+00E9, a lone continuation byte
WireX == <<1, 120, 0>>
WireRoot == <<0>>
WireA_B == <<1, 97, 1, 98, 0>>
WireAB == <<3, 97, 46, 98, 0>>

\* the questions of single-question requests
Questions1 ==
    { WireQuestion(WireX, 1, 1), WireQuestion(WireX, 5, 1),
      WireQuestion(<<1, 88, 0>>, 1, 1), WireQuestion(WireRoot, 1, 1),
      WireQuestion(WireA_B, 5, 1), WireQuestion(WireAB, 5, 1),
      WireQuestion(<<2, 195, 169, 0>>, 1, 1), WireQuestion(<<1, 169, 0>>, 1, 1),
      WireQuestion(WireX, 2, 1), WireQuestion(WireX, 1, 3) }

\* the questions of requests with several questions
QuestionsN ==
    { WireQuestion(WireX, 1, 1), WireQuestion(WireX, 5, 1),
      WireQuestion(<<1, 88, 0>>, 1, 1) }

\* a 12-byte header on the wire
WireHeader(id, flags, qd, an, ns, ar) ==
    write_u16(id) \o flags \o write_u16(qd) \o write_u16(an) \o write_u16(ns)
      \o write_u16(ar)

\* a standard query header: id 0x1234, recursion desired
StdHeader(qd) == WireHeader(4660, <<1, 0>>, qd, 0, 0, 0)

Whole(bytes) == [head |-> bytes, fill |-> 0, fillLen |-> 0]

Prefixes(bytes) == { SubSeq(bytes, 1, n) : n \in 0..Len(bytes) }

\* requests of 0..MaxQuestions questions
WellFormed ==
    { StdHeader(0) }
      \cup { StdHeader(1) \o q : q \in Questions1 }
      \cup UNION { { StdHeader(n) \o Flatten(qs) : qs \in [1..n -> QuestionsN] }
                   : n \in 2..MaxQuestions }

\* requests with other ids, flag words and section counts
OtherHeaders ==
    { WireHeader(id, flags, 1, c[1], c[2], c[3]) \o q :
        id \in {65535}, flags \in {<<0, 0>>, <<255, 255>>, <<134, 131>>},
        c \in {<<0, 0, 0>>, <<7, 2, 3>>}, q \in {WireQuestion(WireX, 1, 1)} }

\* datagrams cut short anywhere, with as many questions announced as before
Truncations ==
    Prefixes(StdHeader(1) \o WireQuestion(WireA_B, 5, 1))
      \cup Prefixes(StdHeader(2) \o WireQuestion(WireX, 1, 1)
                      \o WireQuestion(WireX, 5, 1))

\* datagrams longer than buf: a request followed by BufSize filler bytes,
\* zeros or bytes 127 (which decode as 127-byte labels up to the buffer end)
Oversized ==
    { [head |-> h, fill |-> 0, fillLen |-> BufSize] :
        h \in { StdHeader(1) \o WireQuestion(WireX, 1, 1), StdHeader(0),
                StdHeader(MaxQuestions) } }
      \cup { [head |-> StdHeader(1), fill |-> 127, fillLen |-> BufSize] }

Datagrams ==
    { Whole(b) : b \in WellFormed \cup OtherHeaders \cup Truncations } \cup Oversized

----------------------------------------------------------------------------
(* The service *)

\* main after parse_file and UdpSocket::bind succeeded, before the loop
Init ==
    /\ records \in Zones
    /\ running = TRUE
    /\ request = [d |-> Whole(<< >>), from |-> "", n |-> 0]
    /\ outcome = "none"
    /\ query = DnsQuery_new
    /\ consumed = 0
    /\ response = DnsQuery_new
    /\ picked = << >>
    /\ wire = NoWire

Next == \E d \in Datagrams, from \in Senders : Handle(d, from)

Spec == Init /\ [][Next]_vars

----------------------------------------------------------------------------
(* Vocabulary of the properties *)

\* the latest call of handle decoded its datagram
Decoded == outcome \in {"sent", "resolve_err"}

\* the latest call of handle sent a response
Sent == outcome = "sent"

\* the latest call of handle returned an error (or panicked while decoding)
Failed == outcome \in {"decode_err", "resolve_err", "panic"}

\* buf as the latest recv_from filled it
Buf == recv_from(request.d).buf

\* the header of the datagram sent, as a client decodes it
WireHeaderSent == DnsHeader_read_buf(wire.bytes, 0).val

\* the records with the type, class and name of question i
Matching(i) ==
    { r \in 1..Len(records) : /\ records[r].qtype = query.questions[i].qtype
                              /\ records[r].qclass = query.questions[i].qclass
                              /\ records[r].qname = query.questions[i].qname }

\* the questions that have a matching record, in question order
Answerable == SelectSeq([i \in 1..Len(query.questions) |-> i],
                        LAMBDA i : Matching(i) # {})

\* answer a is the one synthesized from record r
AnswerFrom(a, r) ==
    /\ a.name = records[r].qname
    /\ a.qtype = records[r].qtype
    /\ a.qclass = records[r].qclass
    /\ a.ttl = 60
    /\ DnsRecord_data(records[r]).ok
    /\ a.data = DnsRecord_data(records[r]).val

\* s is a decimal octet: decimal digits only, of value 0..255
IsOctet(s) ==
    /\ s # << >>
    /\ \A i \in 1..Len(s) : s[i] >= 48 /\ s[i] <= 57
    /\ DigitsValue(s, 0) >= 0

\* the value of the decimal octet s
OctetValue(s) == DigitsValue(s, 0)

\* s is exactly four dot-separated decimal octets
IsDottedQuad(s) ==
    /\ Len(Split(s)) = 4
    /\ \A i \in 1..4 : IsOctet(Split(s)[i])

\* the datagram is longer than buf
IsOversized(d) == DatagramLen(d) > BufSize

\* the datagram ends before its header and the questions its header
\* announces are complete: decoding the received bytes alone runs past
\* their end
IsTruncated(d) ==
    LET rx == recv_from(d)
        strict == DnsQuery_from_buffer(SubSeq(rx.buf, 1, rx.n))
    IN  strict.st = "err" /\ strict.err = EndOfBuffer

\* the question was read from one or more labels of ASCII text without dots
PlainName(q) ==
    /\ q.tokens # << >>
    /\ \A t \in 1..Len(q.tokens) :
         \A c \in 1..Len(q.tokens[t]) : q.tokens[t][c] < 128 /\ q.tokens[t][c] # Dot

\* the question section consumed from buf
QuestionsRead == SubSeq(Buf, 13, consumed)

\* the question section of the datagram sent: its bytes between the header
\* and the answer entries
AnswersSentLen ==
    Len(Flatten([i \in 1..Len(response.answers) |->
                   Answer_write_buf(response.answers[i])]))

QuestionsSent == SubSeq(wire.bytes, 13, Len(wire.bytes) - AnswersSentLen)

----------------------------------------------------------------------------
(* C1 *)

\* C1: after a per-request error (the datagram fails to decode, or
\* resolving a question fails) the service loop keeps running and can
\* receive the next datagram.
C1_LoopSurvivesRequestError == Failed => running

----------------------------------------------------------------------------
(* C2 *)

\* C2: in every response sent the response code is 0 if and only if the
\* number of answers equals the number of questions of the decoded request,
\* and 3 otherwise; the header's answer count is the number of answers.
C2_ResponseCode ==
    Sent =>
      /\ WireHeaderSent.flags.response_code \in {0, 3}
      /\ (WireHeaderSent.flags.response_code = 0
            <=> Len(response.answers) = Len(query.questions))
      /\ WireHeaderSent.answers = Len(response.answers)

\* a response to two questions of which only one matched a record
C2_MixedBatch ==
    /\ Sent
    /\ Len(query.questions) = 2
    /\ Len(response.answers) = 1
    /\ WireHeaderSent.answers = 1
    /\ WireHeaderSent.flags.response_code = 3

----------------------------------------------------------------------------
(* C3 *)

\* C3: in every response sent the header's question count is the number of
\* Question entries written, its answer count the number of Answer entries
\* written, its authority and additional counts are 0, and the datagram
\* holds the header and these entries only.
C3_SectionCounts ==
    Sent =>
      /\ WireHeaderSent.questions = Len(response.questions)
      /\ WireHeaderSent.answers = Len(response.answers)
      /\ WireHeaderSent.authorities = 0
      /\ WireHeaderSent.additional = 0
      /\ wire.bytes =
           SubSeq(wire.bytes, 1, 12)
             \o Flatten([i \in 1..Len(response.questions) |->
                           Question_write_buf(response.questions[i])])
             \o Flatten([i \in 1..Len(response.answers) |->
                           Answer_write_buf(response.answers[i])])

\* a response to a request whose header announced answer, authority and
\* additional entries
C3_RequestCarriedCounts ==
    /\ Sent
    /\ query.header.answers # Len(response.answers)
    /\ query.header.authorities # 0
    /\ query.header.additional # 0
    /\ Len(response.answers) = 1

----------------------------------------------------------------------------
(* C4 *)

\* C4: for every Answer synthesized from a zone record, the declared
\* data-length field equals the number of data bytes written after it.
C4_DeclaredLengthIsDataLength ==
    Sent => \A i \in 1..Len(response.answers) :
              response.answers[i].length = Len(response.answers[i].data)

----------------------------------------------------------------------------
(* C5 *)

\* C5: for a non-A record whose text value is a single label without dots,
\* length() (text.len() + 1) equals the number of bytes data() produces.
C5_SingleLabelLength ==
    Sent => \A i \in 1..Len(picked) :
              (/\ picked[i] # 0
               /\ records[picked[i]].qtype # "A"
               /\ Len(Split(records[picked[i]].entry)) = 1)
              => DnsRecord_length(records[picked[i]])
                   = Len(DnsRecord_data(records[picked[i]]).val)

----------------------------------------------------------------------------
(* C6 *)

\* C6: a type-A record selected for a question yields an answer only when
\* its text value is exactly four dot-separated decimal octets in 0..255,
\* and then the data is those four bytes; for any other value data() fails
\* and no answer is produced for the question.
C6_AddressPayload ==
    Decoded => \A i \in 1..Len(picked) :
      (picked[i] # 0 /\ records[picked[i]].qtype = "A") =>
        LET entry == records[picked[i]].entry
            data == DnsRecord_data(records[picked[i]])
        IN  IF IsDottedQuad(entry)
            THEN /\ data.ok
                 /\ data.val = [k \in 1..4 |-> OctetValue(Split(entry)[k])]
            ELSE /\ ~data.ok
                 /\ outcome = "resolve_err"
                 /\ i = Len(picked)

----------------------------------------------------------------------------
(* C7 *)

\* C7: a datagram that is oversized or truncated is rejected with a decode
\* error and never parsed into a query, and the decoder never consumes
\* bytes beyond the received length.
C7_RejectsOversizedAndTruncated ==
    /\ (outcome # "none" /\ (IsOversized(request.d) \/ IsTruncated(request.d)))
         => outcome \in {"decode_err", "recv_err"}
    /\ Decoded => consumed <= request.n

----------------------------------------------------------------------------
(* C8 *)

\* C8 as stated: for every question of a decoded request, in order, no
\* answer is produced when no record has its type, class and name, and
\* otherwise exactly one answer is produced, with ttl 60 and name, type,
\* class and data of one of the matching records.
C8_OneAnswerPerMatchedQuestion ==
    Decoded =>
      /\ Len(response.answers) = Len(Answerable)
      /\ \A k \in 1..Len(response.answers) :
           \E r \in Matching(Answerable[k]) : AnswerFrom(response.answers[k], r)

\* C8 as amended: the same, provided data() of each selected record
\* succeeds; when data() of the record selected for a question fails, the
\* answers of the earlier questions are as stated, handle stops at that
\* question with the error and sends no response.
C8_OneAnswerPerMatchedQuestionOrError ==
    /\ Sent => C8_OneAnswerPerMatchedQuestion
    /\ outcome = "resolve_err" =>
         /\ wire = NoWire
         /\ Len(picked) <= Len(query.questions)
         /\ picked[Len(picked)] \in Matching(Len(picked))
         /\ ~DnsRecord_data(records[picked[Len(picked)]]).ok
         /\ Len(response.answers) < Len(Answerable)
         /\ \A k \in 1..Len(response.answers) :
              /\ Answerable[k] < Len(picked)
              /\ \E r \in Matching(Answerable[k]) :
                   AnswerFrom(response.answers[k], r)
         /\ Answerable[Len(response.answers) + 1] = Len(picked)

\* a response whose answer comes from the second of two matching records,
\* following an answer to an earlier question
C8_SecondMatchSelected ==
    /\ Sent
    /\ Len(query.questions) = 2
    /\ Len(response.answers) = 2
    /\ Cardinality(Matching(2)) = 2
    /\ \A r \in Matching(2) : picked[2] >= r

----------------------------------------------------------------------------
(* C9 *)

\* C9: for each received datagram that decodes successfully the service
\* sends exactly one response, to the datagram's sender and carrying the
\* request's id, before it receives the next one; for a datagram that fails
\* to decode it sends none.
C9_OneResponsePerDecodedRequest ==
    /\ Decoded => /\ wire # NoWire
                  /\ wire.to = request.from
                  /\ WireHeaderSent.id = query.header.id
    /\ outcome \in {"decode_err", "panic"} => wire = NoWire

----------------------------------------------------------------------------
(* C10 *)

\* C10 as stated: for every request that decodes, the question section
\* written in the response is byte-for-byte the question section consumed
\* from the request.
C10_QuestionsEchoed == Sent => QuestionsSent = QuestionsRead

\* C10 as amended: the same for the requests whose every question name has
\* at least one label and only labels of ASCII text without a '.'.
C10_PlainQuestionsEchoed ==
    (Sent /\ \A i \in 1..Len(query.questions) : PlainName(query.questions[i]))
      => QuestionsSent = QuestionsRead

\* a response to two questions with plain names, the second answered
C10_PlainQuestionsAnswered ==
    /\ Sent
    /\ Len(query.questions) = 2
    /\ \A i \in 1..2 : PlainName(query.questions[i])
    /\ Len(response.answers) >= 1

====
